---------------------------- MODULE Spec2Model ----------------------------
(***************************************************************************)
(* Model of the support-query pipeline of ai_chat: askQuestion (rag.js)    *)
(* and the three services it sequences (documentService,                   *)
(* classificationService, responseService).                                *)
(*                                                                         *)
(* Text is modelled as a sequence of lexical pieces: each element is one   *)
(* delimiter character, one whitespace character, one Markdown fence       *)
(* marker, or one maximal run of other characters (a word or a number).    *)
(* String operations of the code (trim, toUpperCase, the replace calls of  *)
(* the repair step, JSON.parse) are computed on these sequences.           *)
(***************************************************************************)
EXTENDS Integers, Sequences, FiniteSets, TLC

(***************************************************************************)
(* Text primitives                                                         *)
(***************************************************************************)
Q == "\""
SP == " "
NL == "\n"
\* the Markdown code-fence marker (three backquotes)
FENCE == "FENCE"
LDQUO == "LDQUO"
RDQUO == "RDQUO"

\* the characters matched by \s in a regular expression and skipped by trim()
WhiteSpace == {SP, NL}

RECURSIVE DropLeadingWs(_)
DropLeadingWs(s) ==
    IF s # <<>> /\ Head(s) \in WhiteSpace THEN DropLeadingWs(Tail(s)) ELSE s

RECURSIVE DropTrailingWs(_)
DropTrailingWs(s) ==
    IF s # <<>> /\ s[Len(s)] \in WhiteSpace
    THEN DropTrailingWs(SubSeq(s, 1, Len(s) - 1))
    ELSE s

\* String.prototype.trim
Trim(s) == DropTrailingWs(DropLeadingWs(s))

\* upper-case form of the words the classifier replies are drawn from
UpperWord(w) ==
    CASE w \in {"yes", "Yes"} -> "YES"
      [] w = "no" -> "NO"
      [] w = "billing" -> "BILLING"
      [] w = "Billing" -> "BILLING"
      [] w = "irrelevant" -> "IRRELEVANT"
      [] w = "technical_no_docs" -> "TECHNICAL_NO_DOCS"
      [] w = "technical_with_docs" -> "TECHNICAL_WITH_DOCS"
      [] w = "maybe" -> "MAYBE"
      [] OTHER -> w

\* String.prototype.toUpperCase
ToUpperCase(s) == [k \in 1..Len(s) |-> UpperWord(s[k])]

\* the first replace of the cleanup: a fence marker followed by json and any
\* white space, or any white space followed by a fence marker, is deleted;
\* matching goes left to right and tries the first alternative first
RECURSIVE StripFences(_)
StripFences(s) ==
    IF s = <<>> THEN <<>>
    ELSE IF Head(s) = FENCE /\ Len(s) >= 2 /\ s[2] = "json"
         THEN StripFences(DropLeadingWs(SubSeq(s, 3, Len(s))))
    ELSE IF DropLeadingWs(s) # <<>> /\ Head(DropLeadingWs(s)) = FENCE
         THEN StripFences(Tail(DropLeadingWs(s)))
    ELSE <<Head(s)>> \o StripFences(Tail(s))

\* the second replace: curly double quotes become straight ones
StraightenQuotes(s) ==
    [k \in 1..Len(s) |-> IF s[k] \in {LDQUO, RDQUO} THEN Q ELSE s[k]]

\* .replace(/[\r\n]/g, '')
RECURSIVE RemoveLineBreaks(_)
RemoveLineBreaks(s) ==
    IF s = <<>> THEN <<>>
    ELSE IF Head(s) = NL THEN RemoveLineBreaks(Tail(s))
    ELSE <<Head(s)>> \o RemoveLineBreaks(Tail(s))

\* .replace(/\s+/g, ' ')
RECURSIVE CollapseSpaces(_)
CollapseSpaces(s) ==
    IF s = <<>> THEN <<>>
    ELSE IF Head(s) \in WhiteSpace
         THEN <<SP>> \o CollapseSpaces(DropLeadingWs(s))
    ELSE <<Head(s)>> \o CollapseSpaces(Tail(s))

\* variant: the cleanup without the replacement of curly quotes
CleanReplyKeepQuotes(s) ==
    Trim(CollapseSpaces(RemoveLineBreaks(StripFences(s))))

\* the cleanup chain of the second parse attempt
CleanReply(s) ==
    Trim(CollapseSpaces(RemoveLineBreaks(StraightenQuotes(StripFences(s)))))

(***************************************************************************)
(* JavaScript values and JSON.parse                                        *)
(* A value is [t |-> tag, v |-> payload]. Numbers are held in hundredths   *)
(* (0.95 is 95), strings as the sequence of their pieces, arrays as        *)
(* sequences of values, objects as functions from keys to values.          *)
(***************************************************************************)
Undefined == [t |-> "undefined", v |-> 0]
Null == [t |-> "null", v |-> 0]
Bool(b) == [t |-> "boolean", v |-> b]
Num(n) == [t |-> "number", v |-> n]
Str(s) == [t |-> "string", v |-> s]
Arr(a) == [t |-> "array", v |-> a]
Obj(f) == [t |-> "object", v |-> f]
EmptyFields == [k \in {} |-> Undefined]

\* the numerals the replies are drawn from, in hundredths
NumeralValue(w) ==
    CASE w = "0" -> 0
      [] w = "0.8" -> 80
      [] w = "0.95" -> 95
      [] w = "1" -> 100
      [] w = "1.5" -> 150
      [] w = "3" -> 300
      [] w = "-1" -> -100
Numerals == {"0", "0.8", "0.95", "1", "1.5", "3", "-1"}

ParseFail == [ok |-> FALSE, val |-> Undefined, rest |-> <<>>]
ParseOk(v, r) == [ok |-> TRUE, val |-> v, rest |-> r]

\* the body of a string literal, after its opening quote: pieces up to the
\* next quote; a raw line break inside a literal is a syntax error
RECURSIVE ParseString(_, _)
ParseString(s, acc) ==
    IF s = <<>> THEN ParseFail
    ELSE IF Head(s) = Q THEN ParseOk(Str(acc), Tail(s))
    ELSE IF Head(s) = NL THEN ParseFail
    ELSE ParseString(Tail(s), Append(acc, Head(s)))

\* Recursive descent over the JSON grammar.  Each operator takes the text
\* that is left, with leading white space already skipped where its name
\* says At, and yields the value parsed and the text after it.
RECURSIVE ParseValue(_)
RECURSIVE ParseMembersAt(_, _)
RECURSIVE ParseElements(_, _)

\* after "key" : value of an object: "," goes on, "}" ends the object
MemberEndAt(e, acc) ==
    IF e = <<>> THEN ParseFail
    ELSE IF Head(e) = "," THEN ParseMembersAt(DropLeadingWs(Tail(e)), acc)
    ELSE IF Head(e) = "}" THEN ParseOk(Obj(acc), Tail(e))
    ELSE ParseFail

\* a repeated key keeps its last value
AfterMemberValue(k, val, acc) ==
    IF ~val.ok THEN ParseFail
    ELSE MemberEndAt(DropLeadingWs(val.rest), (k :> val.val) @@ acc)

AfterMemberKeyAt(k, c, acc) ==
    IF c = <<>> \/ Head(c) # ":" THEN ParseFail
    ELSE AfterMemberValue(k, ParseValue(Tail(c)), acc)

AfterMemberKey(key, acc) ==
    IF ~key.ok THEN ParseFail
    ELSE AfterMemberKeyAt(key.val.v, DropLeadingWs(key.rest), acc)

\* the members of an object, after "{" or ",": "key" : value
ParseMembersAt(s, acc) ==
    IF s = <<>> \/ Head(s) # Q THEN ParseFail
    ELSE AfterMemberKey(ParseString(Tail(s), <<>>), acc)

\* after an element of an array: "," goes on, "]" ends the array
ElementEndAt(e, acc) ==
    IF e = <<>> THEN ParseFail
    ELSE IF Head(e) = "," THEN ParseElements(Tail(e), acc)
    ELSE IF Head(e) = "]" THEN ParseOk(Arr(acc), Tail(e))
    ELSE ParseFail

AfterElement(val, acc) ==
    IF ~val.ok THEN ParseFail
    ELSE ElementEndAt(DropLeadingWs(val.rest), Append(acc, val.val))

\* the elements of an array, after "[" or ","
ParseElements(s, acc) == AfterElement(ParseValue(s), acc)

ParseObjectAt(r) ==
    IF r # <<>> /\ Head(r) = "}" THEN ParseOk(Obj(EmptyFields), Tail(r))
    ELSE ParseMembersAt(r, EmptyFields)

ParseArrayAt(r) ==
    IF r # <<>> /\ Head(r) = "]" THEN ParseOk(Arr(<<>>), Tail(r))
    ELSE ParseElements(r, <<>>)

ParseValueAt(s) ==
    IF s = <<>> THEN ParseFail
    ELSE CASE Head(s) = "{" -> ParseObjectAt(DropLeadingWs(Tail(s)))
           [] Head(s) = "[" -> ParseArrayAt(DropLeadingWs(Tail(s)))
           [] Head(s) = Q -> ParseString(Tail(s), <<>>)
           [] Head(s) \in Numerals -> ParseOk(Num(NumeralValue(Head(s))), Tail(s))
           [] Head(s) = "true" -> ParseOk(Bool(TRUE), Tail(s))
           [] Head(s) = "false" -> ParseOk(Bool(FALSE), Tail(s))
           [] Head(s) = "null" -> ParseOk(Null, Tail(s))
           [] OTHER -> ParseFail

ParseValue(s) == ParseValueAt(DropLeadingWs(s))

\* nothing but white space may follow the value
WholeText(r) ==
    IF r.ok /\ DropLeadingWs(r.rest) = <<>> THEN ParseOk(r.val, <<>>) ELSE ParseFail

\* JSON.parse; ok = FALSE stands for the SyntaxError it throws
JSONParse(s) == WholeText(ParseValue(s))

\* obj.key for a value that is not null or undefined
Get(val, key) ==
    IF val.t = "object" /\ key \in DOMAIN val.v THEN val.v[key] ELSE Undefined

\* ToBoolean
Truthy(val) ==
    CASE val.t \in {"undefined", "null"} -> FALSE
      [] val.t = "boolean" -> val.v
      [] val.t = "number" -> val.v # 0
      [] val.t = "string" -> val.v # <<>>
      [] OTHER -> TRUE

(***************************************************************************)
(* The inputs: queries, vector-store results, model replies                *)
(***************************************************************************)
Invocations == {"i1", "i2"}
\* the invocations that run when requests are served one at a time
Sequential == {"i1"}

Queries == {"How do I reset my password?", "Can I get a refund?"}

\* what the similarity search can resolve to: the ranked page contents
SearchResults == {<<>>, <<"doc1", "doc2">>}

\* messages of the errors the remote services raise
StoreErrors == {"vector store unreachable"}
ModelErrors == {"model request failed"}

\* the resolution of one model call: a reply text, or an error
Reply(text) == [ok |-> TRUE, content |-> text, message |-> ""]
Failure(msg) == [ok |-> FALSE, content |-> <<>>, message |-> msg]
NoResult == Failure("")

RelevanceReplies ==
    { <<"YES">>, <<SP, "yes", NL>>, <<"NO">>, <<"YES", ".">>, <<>>, <<"Y">>,
      <<"Yes", SP, "it", SP, "is">> }

IntentReplies ==
    { <<"BILLING">>, <<SP, "billing", NL>>, <<"TECHNICAL_NO_DOCS">>,
      <<"IRRELEVANT">>, <<"MAYBE">>, <<"TECHNICAL_WITH_DOCS">>,
      <<"BILLING", ".">> }

\* a string literal of one word, and a "key": prefix
Lit(w) == <<Q, w, Q>>
Key(w) == <<Q, w, Q, ":">>
AnswerX == Key("answer") \o Lit("x")

ReplyMinimal == <<"{">> \o AnswerX \o <<"}">>
ReplyFull ==
    <<"{">> \o AnswerX \o <<",">> \o Key("confidence") \o <<"0.8", ",">>
        \o Key("sourcesUsed") \o <<"3", ",">>
        \o Key("relevantDocs") \o <<"[">> \o Lit("doc1") \o <<"]", "}">>
ReplyEnvelope ==
    <<"{">> \o Key("type") \o Lit("BILLING") \o <<",">>
        \o Key("priority") \o Lit("LOW") \o <<",">>
        \o Key("responseTime") \o Lit("never") \o <<",">> \o AnswerX \o <<"}">>
ReplyNoAnswer == <<"{">> \o Key("confidence") \o <<"0.8", "}">>
ReplyEmptyAnswer == <<"{">> \o Key("answer") \o <<Q, Q, "}">>
ReplyNull == <<"null">>
ReplyArray == <<"[", "]">>
ReplyHighConfidence ==
    <<"{">> \o AnswerX \o <<",">> \o Key("confidence") \o <<"1.5", "}">>
ReplyNegativeConfidence ==
    <<"{">> \o AnswerX \o <<",">> \o Key("confidence") \o <<"-1", "}">>
ReplyWrongTypes ==
    <<"{">> \o AnswerX \o <<",">> \o Key("confidence") \o Lit("high") \o <<",">>
        \o Key("sourcesUsed") \o <<"null", ",">>
        \o Key("relevantDocs") \o Lit("none") \o <<"}">>
ReplyFenced == <<FENCE, "json", NL>> \o ReplyMinimal \o <<NL, FENCE>>
ReplyCurlyQuotes ==
    <<"{", LDQUO, "answer", RDQUO, ":", LDQUO, "x", RDQUO, "}">>
\* curly quotes around the key only
ReplyCurlyKeys == <<"{", LDQUO, "answer", RDQUO, ":">> \o Lit("x") \o <<"}">>
\* valid JSON whose answer quotes a word in curly quotes
ReplyQuotedAnswer ==
    <<"{">> \o Key("answer") \o <<Q, "say", SP, LDQUO, "hi", RDQUO, Q, "}">>
ReplyPretty ==
    <<"{", NL, SP, SP>> \o Key("answer") \o <<SP>> \o Lit("x") \o <<NL, "}">>
ReplyWideAnswer == <<"{">> \o Key("answer") \o <<Q, "a", SP, SP, "b", Q, "}">>
ReplyFencedWide == <<FENCE, "json", NL>> \o ReplyWideAnswer \o <<NL, FENCE>>
\* an answer that is not a string: the empty array
ReplyListAnswer == <<"{">> \o Key("answer") \o <<"[", "]", "}">>
ReplyProse == <<"Sorry", SP, "no", SP, "idea">>
ReplyPreamble == <<"Here", SP, "you", SP, "go", ":", SP>> \o ReplyMinimal

SynthesisReplies ==
    { ReplyMinimal, ReplyFull, ReplyEnvelope, ReplyNoAnswer, ReplyEmptyAnswer,
      ReplyNull, ReplyArray, ReplyHighConfidence, ReplyNegativeConfidence,
      ReplyWrongTypes, ReplyFenced, ReplyCurlyQuotes, ReplyPretty,
      ReplyWideAnswer, ReplyFencedWide, ReplyProse, ReplyPreamble,
      ReplyCurlyKeys, ReplyQuotedAnswer, ReplyListAnswer }

(***************************************************************************)
(* documentService                                                         *)
(***************************************************************************)
\* formatDocumentsAsString: the page contents joined by a blank line
RECURSIVE formatDocumentsAsString(_)
formatDocumentsAsString(docs) ==
    IF docs = <<>> THEN <<>>
    ELSE IF Len(docs) = 1 THEN <<Head(docs)>>
    ELSE <<Head(docs), NL, NL>> \o formatDocumentsAsString(Tail(docs))

(***************************************************************************)
(* A function call completes by returning a value or by throwing an error. *)
(***************************************************************************)
NoResponse == [type |-> "NONE"]
Returned(v) == [threw |-> FALSE, error |-> "", value |-> v]
Thrown(msg) == [threw |-> TRUE, error |-> msg, value |-> NoResponse]

(***************************************************************************)
(* responseService                                                         *)
(***************************************************************************)
\* 0.95 and 1, in hundredths
DefaultConfidence == 95
DefaultSourcesUsed == 100

handleTechnicalNoDocs ==
    [ type |-> "TECHNICAL_NO_DOCS",
      message |-> "Your technical question requires specialized attention as it's not covered in our documentation.",
      contactInfo |-> [ email |-> "tech@support.com",
                        phone |-> "1-800-XXX-YYYY",
                        supportHours |-> "24/7" ],
      ticketPriority |-> "High" ]

handleBilling ==
    [ type |-> "BILLING",
      message |-> "For your security, billing inquiries must be handled through our secure billing channels.",
      contactInfo |-> [ email |-> "billing@support.com",
                        phone |-> "1-800-XXX-XXXX",
                        hours |-> "Monday-Friday, 9 AM - 5 PM EST" ],
      securityNote |-> "Never share payment information through unsecured channels." ]

handleIrrelevant ==
    [ type |-> "IRRELEVANT",
      message |-> "Your query doesn't match our supported categories or may be outside our scope.",
      suggestion |-> "Please rephrase your question or choose from our available support categories.",
      availableCategories |-> <<"Technical Support", "Billing & Payments", "Product Information">> ]

\* the second parse attempt, made when the first threw
secondAttempt(direct, content) ==
    IF direct.ok THEN direct ELSE JSONParse(CleanReply(content))

\* variant: the reply is always cleaned before it is parsed
parseReplyCleaned(content) == JSONParse(CleanReply(content))

\* the two parse attempts: the reply as it is, then the cleaned reply
parseReply(content) == secondAttempt(JSONParse(content), content)

\* variant: v ?? fallback, the default fills only a missing value
numberOrPresent(v, fallback) ==
    IF v.t \in {"undefined", "null"} THEN Num(fallback) ELSE v

\* typeof v === 'number' ? v : fallback
numberOr(v, fallback) == IF v.t = "number" THEN v ELSE Num(fallback)

\* Array.isArray(v) ? v : []
arrayOr(v) == IF v.t = "array" THEN v ELSE Arr(<<>>)

\* variant: the answer is tidied, runs of white space in it become one space
buildTechnicalResponseTidied(parsedResponse) ==
    [ type |-> "TECHNICAL_WITH_DOCS",
      priority |-> "HIGH - Documentation Available",
      responseTime |-> "Immediate - Using Available Documentation",
      answer |-> IF Get(parsedResponse, <<"answer">>).t = "string"
                 THEN Str(CollapseSpaces(Get(parsedResponse, <<"answer">>).v))
                 ELSE Get(parsedResponse, <<"answer">>),
      confidence |-> numberOr(Get(parsedResponse, <<"confidence">>), DefaultConfidence),
      sourcesUsed |-> numberOr(Get(parsedResponse, <<"sourcesUsed">>), DefaultSourcesUsed),
      relevantDocs |-> arrayOr(Get(parsedResponse, <<"relevantDocs">>)) ]

\* variant: { ...defaults, ...parsedResponse }, the reply's own type wins
buildTechnicalResponseSpread(parsedResponse) ==
    [ type |-> IF Get(parsedResponse, <<"type">>).t = "string"
                  /\ Len(Get(parsedResponse, <<"type">>).v) = 1
               THEN Get(parsedResponse, <<"type">>).v[1]
               ELSE "TECHNICAL_WITH_DOCS",
      priority |-> "HIGH - Documentation Available",
      responseTime |-> "Immediate - Using Available Documentation",
      answer |-> Get(parsedResponse, <<"answer">>),
      confidence |-> numberOr(Get(parsedResponse, <<"confidence">>), DefaultConfidence),
      sourcesUsed |-> numberOr(Get(parsedResponse, <<"sourcesUsed">>), DefaultSourcesUsed),
      relevantDocs |-> arrayOr(Get(parsedResponse, <<"relevantDocs">>)) ]

\* the record built from a parsed reply that has an answer
buildTechnicalResponse(parsedResponse) ==
    [ type |-> "TECHNICAL_WITH_DOCS",
      priority |-> "HIGH - Documentation Available",
      responseTime |-> "Immediate - Using Available Documentation",
      answer |-> Get(parsedResponse, <<"answer">>),
      confidence |-> numberOr(Get(parsedResponse, <<"confidence">>), DefaultConfidence),
      sourcesUsed |-> numberOr(Get(parsedResponse, <<"sourcesUsed">>), DefaultSourcesUsed),
      relevantDocs |-> arrayOr(Get(parsedResponse, <<"relevantDocs">>)) ]

\* variant: the parsed reply is used without the check of its answer
checkAnswerUnchecked(parsed) ==
    IF ~parsed.ok THEN Thrown("Could not parse response")
    ELSE IF parsed.val.t = "null"
         THEN Thrown("Cannot read properties of null (reading 'answer')")
    ELSE Returned(buildTechnicalResponse(parsed.val))

\* the try block after the parse attempts
checkAnswer(parsed) ==
    IF ~parsed.ok THEN Thrown("Could not parse response")
    ELSE IF parsed.val.t = "null"
         THEN Thrown("Cannot read properties of null (reading 'answer')")
    ELSE IF ~Truthy(Get(parsed.val, <<"answer">>))
         THEN Thrown("Response missing required fields")
    ELSE Returned(buildTechnicalResponse(parsed.val))

\* the try block of handleTechnicalWithDocs, resumed with the resolution of
\* model.invoke
tryTechnicalWithDocs(result) ==
    IF ~result.ok THEN Thrown(result.message)
    ELSE checkAnswer(parseReply(result.content))

\* variant: the catch block answers with the record of the earlier
\* handleQuery of rag.js instead of calling handleTechnicalNoDocs
catchTechnicalWithDocsLegacy(attempt) ==
    IF attempt.threw
    THEN Returned([handleTechnicalNoDocs EXCEPT !.message =
           "Unable to process the technical documentation response. Redirecting to support."])
    ELSE attempt

\* variant: the catch block recovers only the errors the try block throws
\* itself and passes on the error of model.invoke
catchTechnicalWithDocsNarrow(attempt) ==
    IF attempt.threw /\ attempt.error \in
           { "Could not parse response", "Response missing required fields",
             "Cannot read properties of null (reading 'answer')" }
    THEN Returned(handleTechnicalNoDocs)
    ELSE attempt

\* the catch block of handleTechnicalWithDocs
catchTechnicalWithDocs(attempt) ==
    IF attempt.threw THEN Returned(handleTechnicalNoDocs) ELSE attempt

\* variant: handleTechnicalWithDocs without its try/catch
handleTechnicalWithDocsUncaught(result) == tryTechnicalWithDocs(result)

\* handleTechnicalWithDocs: whatever the try block throws is caught and
\* answered by handleTechnicalNoDocs
handleTechnicalWithDocs(result) ==
    catchTechnicalWithDocs(tryTechnicalWithDocs(result))

\* variant: the switch without its BILLING case
handleQueryNoBilling(queryType, result) ==
    CASE queryType = <<"TECHNICAL_WITH_DOCS">> -> handleTechnicalWithDocs(result)
      [] queryType = <<"TECHNICAL_NO_DOCS">> -> Returned(handleTechnicalNoDocs)
      [] queryType = <<"IRRELEVANT">> -> Returned(handleIrrelevant)
      [] OTHER -> Returned(handleIrrelevant)

\* variant: the switch without its default case (an unmatched queryType
\* returns undefined)
handleQueryNoDefault(queryType, result) ==
    CASE queryType = <<"TECHNICAL_WITH_DOCS">> -> handleTechnicalWithDocs(result)
      [] queryType = <<"TECHNICAL_NO_DOCS">> -> Returned(handleTechnicalNoDocs)
      [] queryType = <<"BILLING">> -> Returned(handleBilling)
      [] queryType = <<"IRRELEVANT">> -> Returned(handleIrrelevant)
      [] OTHER -> Returned(NoResponse)

\* handleQuery: the switch on queryType; result is the resolution of the
\* model call that the TECHNICAL_WITH_DOCS case awaits
handleQuery(queryType, result) ==
    CASE queryType = <<"TECHNICAL_WITH_DOCS">> -> handleTechnicalWithDocs(result)
      [] queryType = <<"TECHNICAL_NO_DOCS">> -> Returned(handleTechnicalNoDocs)
      [] queryType = <<"BILLING">> -> Returned(handleBilling)
      [] queryType = <<"IRRELEVANT">> -> Returned(handleIrrelevant)
      [] OTHER -> Returned(handleIrrelevant)

(***************************************************************************)
(* classificationService                                                   *)
(***************************************************************************)
\* variant: relevanceCheck.toUpperCase().includes('YES')
checkDocumentRelevanceIncludes(reply) ==
    \E k \in 1..Len(reply) : ToUpperCase(reply)[k] = "YES"

\* checkDocumentRelevance, resumed with the reply of the relevance chain
checkDocumentRelevance(relevanceCheck) ==
    ToUpperCase(Trim(relevanceCheck)) = <<"YES">>

\* classifyQuery, given the result of checkDocumentRelevance and, when that
\* is false, the reply of the classification chain
classifyQuery(hasRelevantDocs, classification) ==
    IF hasRelevantDocs THEN <<"TECHNICAL_WITH_DOCS">>
    ELSE ToUpperCase(Trim(classification))

(***************************************************************************)
(* askQuestion                                                             *)
(***************************************************************************)
\* the constraint of technicalDocsResponseSchema on confidence:
\* z.number().min(0).max(1)
confidenceSchema(v) == v.t = "number" /\ v.v >= 0 /\ v.v <= 100

\* the record the catch block of askQuestion returns
errorResponse(msg) ==
    [ type |-> "ERROR",
      message |-> "An error occurred while processing your query.",
      error |-> msg ]

\* the catch block of askQuestion
catchAskQuestion(msg) == Returned(errorResponse(msg))

(***************************************************************************)
(* State: one record of locals per invocation of askQuestion.  An          *)
(* invocation is suspended at an await while a remote call is outstanding; *)
(* pc names the call it waits for.                                         *)
(***************************************************************************)
VARIABLES
    pc,              \* idle, connecting, searching, gating, classifying,
                     \* synthesizing, done (returned from the try block),
                     \* failed (returned from the catch block), threw (an
                     \* error left askQuestion)
    query,           \* the argument of askQuestion
    context,         \* askQuestion: const context
    relevanceCheck,  \* checkDocumentRelevance: the reply of the relevance chain
    relevance,       \* classifyQuery: hasRelevantDocs ("unset", "true", "false")
    queryType,       \* askQuestion: const queryType
    content,         \* handleTechnicalWithDocs: response.content
    response,        \* the record askQuestion returns
    calls,           \* the remote calls issued so far by the invocation
    raised,          \* the remote call that raised an error, if any
    returned,        \* per static responder, the records it has returned so far
    hung,            \* the call the invocation awaits will never resolve
    req,             \* the server's req.body.query of the request it handles
    res,             \* the HTTP response the server has sent for the request
    fetch,           \* ChatInterface: where the fetch of handleSubmit is
    messages,        \* ChatInterface: messages
    inputValue,      \* ChatInterface: inputValue
    isLoading        \* ChatInterface: isLoading

\* what lies outside askQuestion: the transport, the server's handler, the
\* chat page
outside == <<hung, req, res, fetch, messages, inputValue, isLoading>>

vars ==
    <<pc, query, context, relevanceCheck, relevance, queryType, content, response,
      calls, raised, returned, hung, req, res, fetch, messages, inputValue,
      isLoading>>

\* no request is being handled; no HTTP response has been sent
NoRequest == [t |-> "none", v |-> <<>>]
NoReply == [status |-> 0, body |-> NoResponse]

NoCalls == [connect |-> 0, search |-> 0, relevance |-> 0, intent |-> 0, synthesis |-> 0]

\* the types answered by a static responder
StaticTypes == {"TECHNICAL_NO_DOCS", "BILLING", "IRRELEVANT"}

\* the returns of one static responder are counted up to this number
MaxReturnsCounted == 2

\* what has been observed of one static responder: the distinct records it
\* has returned and how many times it has returned
NoReturns == [values |-> {}, times |-> 0]
OneMoreReturn(seen, value) ==
    [ values |-> seen.values \cup {value},
      times |-> IF seen.times < MaxReturnsCounted THEN seen.times + 1
                ELSE seen.times ]

Init ==
    /\ pc = [i \in Invocations |-> "idle"]
    /\ query = [i \in Invocations |-> ""]
    /\ context = [i \in Invocations |-> <<>>]
    /\ relevanceCheck = [i \in Invocations |-> <<>>]
    /\ relevance = [i \in Invocations |-> "unset"]
    /\ queryType = [i \in Invocations |-> <<>>]
    /\ content = [i \in Invocations |-> <<>>]
    /\ response = [i \in Invocations |-> NoResponse]
    /\ calls = [i \in Invocations |-> NoCalls]
    /\ raised = [i \in Invocations |-> "none"]
    /\ returned = [t \in StaticTypes |-> NoReturns]
    /\ hung = [i \in Invocations |-> FALSE]
    /\ req = [i \in Invocations |-> NoRequest]
    /\ res = [i \in Invocations |-> NoReply]
    /\ fetch = "none"
    /\ messages = <<>>
    /\ inputValue = <<>>
    /\ isLoading = FALSE

\* one more remote call of the given kind
Issue(i, kind) == calls' = [calls EXCEPT ![i][kind] = @ + 1]

\* askQuestion ends with what its catch block completed with
Caught(i, completion) ==
    /\ pc' = [pc EXCEPT ![i] = IF completion.threw THEN "threw" ELSE "failed"]
    /\ response' = [response EXCEPT ![i] = completion.value]

\* the error of the awaited call, or of the code run after it, reaches the
\* catch block of askQuestion
Catch(i, stage, msg) ==
    /\ Caught(i, catchAskQuestion(msg))
    /\ raised' = [raised EXCEPT ![i] = stage]
    /\ UNCHANGED returned

\* askQuestion(query) up to the first await: getRelevantDocuments calls
\* createRetriever, which opens the vector store
Call(i, q) ==
    /\ pc[i] = "idle"
    /\ pc' = [pc EXCEPT ![i] = "connecting"]
    /\ query' = [query EXCEPT ![i] = q]
    /\ Issue(i, "connect")
    /\ UNCHANGED <<context, relevanceCheck, relevance, queryType, content, response, raised, returned>>
    /\ UNCHANGED outside

\* fromExistingIndex resolves: the similarity search is issued
ConnectOk(i) ==
    /\ pc[i] = "connecting"
    /\ pc' = [pc EXCEPT ![i] = "searching"]
    /\ Issue(i, "search")
    /\ UNCHANGED <<query, context, relevanceCheck, relevance, queryType, content, response, raised, returned>>
    /\ UNCHANGED outside

ConnectFail(i, msg) ==
    /\ pc[i] = "connecting"
    /\ Catch(i, "connect", msg)
    /\ UNCHANGED <<query, context, relevanceCheck, relevance, queryType, content, calls>>
    /\ UNCHANGED outside

\* variant: the document service keeps the context it formed last in a
\* field of its one instance, where every invocation in flight reads it
SearchOkShared(i, docs) ==
    /\ pc[i] = "searching"
    /\ context' = [j \in Invocations |->
                      IF j = i \/ pc[j] \in {"gating", "classifying", "synthesizing"}
                      THEN formatDocumentsAsString(docs) ELSE context[j]]
    /\ pc' = [pc EXCEPT ![i] = "gating"]
    /\ Issue(i, "relevance")
    /\ UNCHANGED <<query, relevanceCheck, relevance, queryType, content, response, raised, returned>>
    /\ UNCHANGED outside

\* the search resolves: the context is formed, classifyQuery is entered and
\* checkDocumentRelevance invokes the relevance chain
SearchOk(i, docs) ==
    /\ pc[i] = "searching"
    /\ context' = [context EXCEPT ![i] = formatDocumentsAsString(docs)]
    /\ pc' = [pc EXCEPT ![i] = "gating"]
    /\ Issue(i, "relevance")
    /\ UNCHANGED <<query, relevanceCheck, relevance, queryType, content, response, raised, returned>>
    /\ UNCHANGED outside

\* variant: getRelevantDocuments swallows the error of the search and
\* returns an empty context
SearchFailSwallowed(i, msg) ==
    /\ pc[i] = "searching"
    /\ context' = [context EXCEPT ![i] = <<>>]
    /\ pc' = [pc EXCEPT ![i] = "gating"]
    /\ Issue(i, "relevance")
    /\ raised' = [raised EXCEPT ![i] = "search"]
    /\ UNCHANGED <<query, relevanceCheck, relevance, queryType, content, response, returned>>
    /\ UNCHANGED outside

SearchFail(i, msg) ==
    /\ pc[i] = "searching"
    /\ Catch(i, "search", msg)
    /\ UNCHANGED <<query, context, relevanceCheck, relevance, queryType, content, calls>>
    /\ UNCHANGED outside

\* askQuestion after handleQuery has completed: the response is returned,
\* or what handleQuery threw is caught
Complete(i, completion, stage) ==
    IF completion.threw
    THEN Catch(i, stage, completion.error)
    ELSE /\ pc' = [pc EXCEPT ![i] = "done"]
         /\ response' = [response EXCEPT ![i] = completion.value]
         /\ raised' = [raised EXCEPT ![i] = stage]
         /\ returned' = IF completion.value.type \in StaticTypes
                        THEN [returned EXCEPT ![completion.value.type] =
                                  OneMoreReturn(@, completion.value)]
                        ELSE returned

\* variant: the static responders ask the model to word their message
DispatchWithCall(i, type) ==
    /\ queryType' = [queryType EXCEPT ![i] = type]
    /\ Issue(i, "synthesis")
    /\ IF type = <<"TECHNICAL_WITH_DOCS">>
       THEN /\ pc' = [pc EXCEPT ![i] = "synthesizing"]
            /\ UNCHANGED <<response, raised, returned>>
       ELSE Complete(i, handleQuery(type, NoResult), "none")

\* classifyQuery has returned type: handleQuery switches on it; the
\* TECHNICAL_WITH_DOCS case invokes the model, every other case returns
Dispatch(i, type) ==
    /\ queryType' = [queryType EXCEPT ![i] = type]
    /\ IF type = <<"TECHNICAL_WITH_DOCS">>
       THEN /\ pc' = [pc EXCEPT ![i] = "synthesizing"]
            /\ Issue(i, "synthesis")
            /\ UNCHANGED <<response, raised, returned>>
       ELSE /\ UNCHANGED calls
            /\ Complete(i, handleQuery(type, NoResult), "none")

\* the relevance chain resolves with YES: classifyQuery returns
\* TECHNICAL_WITH_DOCS, handleQuery enters handleTechnicalWithDocs, which
\* invokes the model
RelevanceYes(i, reply) ==
    /\ pc[i] = "gating"
    /\ checkDocumentRelevance(reply)
    /\ relevanceCheck' = [relevanceCheck EXCEPT ![i] = reply]
    /\ relevance' = [relevance EXCEPT ![i] = "true"]
    /\ Dispatch(i, classifyQuery(TRUE, <<>>))
    /\ UNCHANGED <<query, context, content>>
    /\ UNCHANGED outside

\* the relevance chain resolves with anything else: classifyQuery invokes
\* the classification chain
RelevanceNo(i, reply) ==
    /\ pc[i] = "gating"
    /\ ~checkDocumentRelevance(reply)
    /\ relevanceCheck' = [relevanceCheck EXCEPT ![i] = reply]
    /\ relevance' = [relevance EXCEPT ![i] = "false"]
    /\ pc' = [pc EXCEPT ![i] = "classifying"]
    /\ Issue(i, "intent")
    /\ UNCHANGED <<query, context, queryType, content, response, raised, returned>>
    /\ UNCHANGED outside

\* variant: a failed relevance call is issued once more
RelevanceFailRetried(i, msg) ==
    /\ pc[i] = "gating"
    /\ Issue(i, "relevance")
    /\ UNCHANGED <<pc, query, context, relevanceCheck, relevance, queryType,
                   content, response, raised, returned>>
    /\ UNCHANGED outside

RelevanceFail(i, msg) ==
    /\ pc[i] = "gating"
    /\ Catch(i, "relevance", msg)
    /\ UNCHANGED <<query, context, relevanceCheck, relevance, queryType, content, calls>>
    /\ UNCHANGED outside

\* the classification chain resolves: classifyQuery returns the trimmed,
\* upper-cased reply
IntentOk(i, reply) ==
    /\ pc[i] = "classifying"
    /\ Dispatch(i, classifyQuery(FALSE, reply))
    /\ UNCHANGED <<query, context, relevanceCheck, relevance, content>>
    /\ UNCHANGED outside

IntentFail(i, msg) ==
    /\ pc[i] = "classifying"
    /\ Catch(i, "intent", msg)
    /\ UNCHANGED <<query, context, relevanceCheck, relevance, queryType, content, calls>>
    /\ UNCHANGED outside

\* model.invoke of handleTechnicalWithDocs resolves (with a reply or an
\* error): the rest of handleTechnicalWithDocs runs and askQuestion returns
SynthesisResolve(i, result) ==
    /\ pc[i] = "synthesizing"
    /\ content' = [content EXCEPT ![i] = result.content]
    /\ Complete(i, handleQuery(queryType[i], result),
                IF result.ok THEN "none" ELSE "synthesis")
    /\ UNCHANGED <<query, context, relevanceCheck, relevance, queryType, calls>>
    /\ UNCHANGED outside

\* the caller has the response; the locals of the invocation are gone
Return(i) ==
    /\ pc[i] \in {"done", "failed", "threw"}
    /\ pc' = [pc EXCEPT ![i] = "idle"]
    /\ query' = [query EXCEPT ![i] = ""]
    /\ context' = [context EXCEPT ![i] = <<>>]
    /\ relevanceCheck' = [relevanceCheck EXCEPT ![i] = <<>>]
    /\ relevance' = [relevance EXCEPT ![i] = "unset"]
    /\ queryType' = [queryType EXCEPT ![i] = <<>>]
    /\ content' = [content EXCEPT ![i] = <<>>]
    /\ response' = [response EXCEPT ![i] = NoResponse]
    /\ calls' = [calls EXCEPT ![i] = NoCalls]
    /\ raised' = [raised EXCEPT ![i] = "none"]
    /\ UNCHANGED returned
    /\ UNCHANGED outside

Step(i) ==
    \/ \E q \in Queries : Call(i, q)
    \/ ConnectOk(i)
    \/ \E msg \in StoreErrors : ConnectFail(i, msg)
    \/ \E docs \in SearchResults : SearchOk(i, docs)
    \/ \E msg \in StoreErrors : SearchFail(i, msg)
    \/ \E reply \in RelevanceReplies : RelevanceYes(i, reply)
    \/ \E reply \in RelevanceReplies : RelevanceNo(i, reply)
    \/ \E msg \in ModelErrors : RelevanceFail(i, msg)
    \/ \E reply \in IntentReplies : IntentOk(i, reply)
    \/ \E msg \in ModelErrors : IntentFail(i, msg)
    \/ \E reply \in SynthesisReplies : SynthesisResolve(i, Reply(reply))
    \/ \E msg \in ModelErrors : SynthesisResolve(i, Failure(msg))
    \/ Return(i)

\* requests served one at a time
Next == \E i \in Sequential : Step(i)

Spec == Init /\ [][Next]_vars

\* a few of the replies, drawn where the variety of the replies is not at
\* stake: requests served at the same time, calls that hang
FewRelevanceReplies == { <<"YES">>, <<"NO">> }
FewIntentReplies == { <<"BILLING">>, <<"MAYBE">>, <<"TECHNICAL_WITH_DOCS">> }
FewSynthesisReplies == { ReplyMinimal, ReplyProse }

\* the stages in which askQuestion is suspended at an await
Waiting == {"connecting", "searching", "gating", "classifying", "synthesizing"}

\* variant: a deadline rejects the awaited call, askQuestion catches it
HangWithDeadline(i) ==
    /\ pc[i] \in Waiting
    /\ ~hung[i]
    /\ hung' = [hung EXCEPT ![i] = TRUE]
    /\ Catch(i, "deadline", "deadline exceeded")
    /\ UNCHANGED <<query, context, relevanceCheck, relevance, queryType, content, calls>>
    /\ UNCHANGED <<req, res, fetch, messages, inputValue, isLoading>>

\* the remote service never answers the call invocation i awaits; nothing
\* in askQuestion or the services sets a deadline for it
Hang(i) ==
    /\ pc[i] \in Waiting
    /\ ~hung[i]
    /\ hung' = [hung EXCEPT ![i] = TRUE]
    /\ UNCHANGED <<pc, query, context, relevanceCheck, relevance, queryType,
                   content, response, calls, raised, returned>>
    /\ UNCHANGED <<req, res, fetch, messages, inputValue, isLoading>>

\* the code after an await runs once the awaited call has resolved
Settles(i) == ~hung[i]

\* one step of invocation i whose awaited call, if any, resolves
LiveStep(i) ==
    \/ \E q \in Queries : Call(i, q)
    \/ Settles(i) /\ ConnectOk(i)
    \/ \E msg \in StoreErrors : Settles(i) /\ ConnectFail(i, msg)
    \/ \E docs \in SearchResults : Settles(i) /\ SearchOk(i, docs)
    \/ \E msg \in StoreErrors : Settles(i) /\ SearchFail(i, msg)
    \/ \E reply \in FewRelevanceReplies : Settles(i) /\ RelevanceYes(i, reply)
    \/ \E reply \in FewRelevanceReplies : Settles(i) /\ RelevanceNo(i, reply)
    \/ \E msg \in ModelErrors : Settles(i) /\ RelevanceFail(i, msg)
    \/ \E reply \in FewIntentReplies : Settles(i) /\ IntentOk(i, reply)
    \/ \E msg \in ModelErrors : Settles(i) /\ IntentFail(i, msg)
    \/ \E msg \in ModelErrors : Settles(i) /\ SynthesisResolve(i, Failure(msg))
    \/ \E reply \in FewSynthesisReplies : Settles(i) /\ SynthesisResolve(i, Reply(reply))
    \/ Return(i)

LiveNext == \E i \in Sequential : LiveStep(i) \/ Hang(i)

\* the event loop runs the code after an await once the call has resolved,
\* and a call that does not hang resolves
Live ==
    /\ Init
    /\ [][LiveNext]_vars
    /\ \A i \in Sequential : WF_vars(LiveStep(i))

(***************************************************************************)
(* The server: app.post('/api/query')                                      *)
(***************************************************************************)
\* what req.body.query can be once express.json has parsed a request: absent,
\* null, a string (empty, blank, a question), a number, a boolean, an array,
\* an object
RequestQueries ==
    { Undefined, Null, Str(<<>>), Str(<<SP>>), Str(<<"refund?">>),
      Str(<<"How", SP, "to", SP, "reset?">>), Num(0), Num(100), Bool(FALSE),
      Bool(TRUE), Arr(<<>>), Obj(EmptyFields) }

\* variant: only the type of query is checked
invalidQueryTypeOnly(q) == q.t # "string"

\* !query || typeof query !== 'string'
invalidQuery(q) == ~Truthy(q) \/ q.t # "string"

\* res.status(400).json(...)
badRequest ==
    [ status |-> 400,
      body |-> [ error |-> "Invalid request",
                 message |-> "Query must be a non-empty string" ] ]

\* res.json(response), or the response of the handler's catch block when
\* askQuestion threw
sendResponse(ended, result) ==
    IF ended = "threw"
    THEN [ status |-> 500,
           body |-> [ error |-> "Internal server error", message |-> result ] ]
    ELSE [ status |-> 200, body |-> result ]

\* a POST /api/query arrives and its body is parsed; the handler is entered
Post(i, q) ==
    /\ pc[i] = "idle"
    /\ req[i] = NoRequest
    /\ req' = [req EXCEPT ![i] = q]
    /\ UNCHANGED <<pc, query, context, relevanceCheck, relevance, queryType,
                   content, response, calls, raised, returned>>
    /\ UNCHANGED <<hung, res, fetch, messages, inputValue, isLoading>>

\* the handler finds the query invalid and answers 400
Reject(i) ==
    /\ pc[i] = "idle"
    /\ req[i] # NoRequest
    /\ res[i] = NoReply
    /\ invalidQuery(req[i])
    /\ res' = [res EXCEPT ![i] = badRequest]
    /\ UNCHANGED <<pc, query, context, relevanceCheck, relevance, queryType,
                   content, response, calls, raised, returned>>
    /\ UNCHANGED <<hung, req, fetch, messages, inputValue, isLoading>>

\* the handler finds the query valid: await askQuestion(query)
Accept(i) ==
    /\ req[i] # NoRequest
    /\ res[i] = NoReply
    /\ ~invalidQuery(req[i])
    /\ Call(i, req[i].v)

\* askQuestion has completed: the handler sends what it returned
Respond(i) ==
    /\ pc[i] \in {"done", "failed", "threw"}
    /\ res[i] = NoReply
    /\ res' = [res EXCEPT ![i] = sendResponse(pc[i], response[i])]
    /\ UNCHANGED <<pc, query, context, relevanceCheck, relevance, queryType,
                   content, response, calls, raised, returned>>
    /\ UNCHANGED <<hung, req, fetch, messages, inputValue, isLoading>>

\* the handler has ended
Ended(i) == res[i] # NoReply /\ Return(i)

\* the client has the response; the request is over
Deliver(i) ==
    /\ pc[i] = "idle"
    /\ res[i] # NoReply
    /\ req' = [req EXCEPT ![i] = NoRequest]
    /\ res' = [res EXCEPT ![i] = NoReply]
    /\ UNCHANGED <<pc, query, context, relevanceCheck, relevance, queryType,
                   content, response, calls, raised, returned>>
    /\ UNCHANGED <<hung, fetch, messages, inputValue, isLoading>>

\* the steps of askQuestion between its call and its completion
Pipeline(i) ==
    /\ Settles(i)
    /\ \/ ConnectOk(i)
       \/ \E msg \in StoreErrors : ConnectFail(i, msg)
       \/ \E docs \in SearchResults : SearchOk(i, docs)
       \/ \E msg \in StoreErrors : SearchFail(i, msg)
       \/ \E reply \in FewRelevanceReplies : RelevanceYes(i, reply)
       \/ \E reply \in FewRelevanceReplies : RelevanceNo(i, reply)
       \/ \E msg \in ModelErrors : RelevanceFail(i, msg)
       \/ \E reply \in FewIntentReplies : IntentOk(i, reply)
       \/ \E msg \in ModelErrors : IntentFail(i, msg)
       \/ \E msg \in ModelErrors : SynthesisResolve(i, Failure(msg))
       \/ \E reply \in FewSynthesisReplies : SynthesisResolve(i, Reply(reply))

ServerStep(i) ==
    \/ \E q \in RequestQueries : Post(i, q)
    \/ Reject(i)
    \/ Accept(i)
    \/ Pipeline(i)
    \/ Respond(i)
    \/ Ended(i)
    \/ Deliver(i)

ServerNext == \E i \in Sequential : ServerStep(i)

Server == Init /\ [][ServerNext]_vars

(***************************************************************************)
(* The chat UI: ChatInterface                                              *)
(***************************************************************************)
\* the submits a chat is followed for
MaxSubmits == 2

\* a text longer than the body parser of the server accepts
TooLarge == <<"(a question of more than 100kb)">>

\* what the user may have typed into the input field
TypedInputs ==
    { <<>>, <<SP>>, <<"refund?">>, <<SP, "reset?", SP>>, TooLarge }

\* { text: inputValue, sender: 'user' }
userMessage(typed) == [ text |-> Str(typed), sender |-> "user" ]

\* the message of the catch block of handleSubmit
errorMessage ==
    [ text |-> Str(<<"Sorry, I encountered an error. Please try again.">>),
      sender |-> "ai",
      isError |-> TRUE ]

\* responseData.key: undefined when the response has no such field
Field(responseData, key) ==
    IF key \in DOMAIN responseData THEN responseData[key] ELSE Undefined

\* variant: the message of a response that has no answer is displayed
formatResponseShowingMessage(responseData) ==
    [ text |-> IF "answer" \in DOMAIN responseData /\ Truthy(responseData.answer)
               THEN responseData.answer
               ELSE IF "message" \in DOMAIN responseData
                    THEN Str(<<responseData.message>>)
                    ELSE Str(<<"No answer provided">>),
      metadata |-> [ type |-> Field(responseData, "type"),
                     priority |-> Field(responseData, "priority"),
                     confidence |-> Field(responseData, "confidence"),
                     sourcesUsed |-> Field(responseData, "sourcesUsed"),
                     responseTime |-> Field(responseData, "responseTime") ] ]

\* formatResponse: responseData.answer || 'No answer provided', and the
\* five fields of the metadata
formatResponse(responseData) ==
    [ text |-> IF "answer" \in DOMAIN responseData /\ Truthy(responseData.answer)
               THEN responseData.answer
               ELSE Str(<<"No answer provided">>),
      metadata |-> [ type |-> Field(responseData, "type"),
                     priority |-> Field(responseData, "priority"),
                     confidence |-> Field(responseData, "confidence"),
                     sourcesUsed |-> Field(responseData, "sourcesUsed"),
                     responseTime |-> Field(responseData, "responseTime") ] ]

\* { text: formattedResponse.text, sender: 'ai', metadata: ... }
aiMessage(formattedResponse) ==
    [ text |-> formattedResponse.text,
      sender |-> "ai",
      metadata |-> formattedResponse.metadata ]

\* response.ok
ok(status) == status >= 200 /\ status <= 299

\* what handleSubmit appends once fetchAIResponse has settled with the
\* given reply of the server
settled(serverReply) ==
    IF ok(serverReply.status)
    THEN aiMessage(formatResponse(serverReply.body))
    ELSE errorMessage

\* the text handleSubmit has passed to fetchAIResponse: the inputValue of
\* the render in which the form was submitted
Sent == messages[Len(messages)].text.v

\* handleInputChange; the input field is disabled while loading
Type(typed) ==
    /\ ~isLoading
    /\ inputValue' = typed
    /\ UNCHANGED <<pc, query, context, relevanceCheck, relevance, queryType,
                   content, response, calls, raised, returned>>
    /\ UNCHANGED <<hung, req, res, fetch, messages, isLoading>>

\* variant: handleSubmit without the test of the trimmed input
SubmitBlankToo ==
    /\ ~isLoading
    /\ Len(messages) < 2 * MaxSubmits
    /\ messages' = Append(messages, userMessage(inputValue))
    /\ inputValue' = <<>>
    /\ isLoading' = TRUE
    /\ fetch' = "pending"
    /\ UNCHANGED <<pc, query, context, relevanceCheck, relevance, queryType,
                   content, response, calls, raised, returned>>
    /\ UNCHANGED <<hung, req, res>>

\* handleSubmit up to its await: the form can be submitted while it is not
\* loading; fetchAIResponse has called fetch
Submit ==
    /\ ~isLoading
    /\ Len(messages) < 2 * MaxSubmits
    /\ IF Trim(inputValue) = <<>>
       THEN UNCHANGED <<messages, inputValue, isLoading, fetch>>
       ELSE /\ messages' = Append(messages, userMessage(inputValue))
            /\ inputValue' = <<>>
            /\ isLoading' = TRUE
            /\ fetch' = "pending"
    /\ UNCHANGED <<pc, query, context, relevanceCheck, relevance, queryType,
                   content, response, calls, raised, returned>>
    /\ UNCHANGED <<hung, req, res>>

\* the request reaches the server with body {query: message}
Arrive(i) ==
    /\ fetch = "pending"
    /\ res[i] = NoReply
    /\ Sent # TooLarge
    /\ Post(i, Str(Sent))

\* express.json refuses the body; the error-handling middleware answers
ParserError(i) ==
    /\ fetch = "pending"
    /\ pc[i] = "idle"
    /\ req[i] = NoRequest
    /\ res[i] = NoReply
    /\ Sent = TooLarge
    /\ res' = [res EXCEPT ![i] = sendResponse("threw", "request entity too large")]
    /\ UNCHANGED <<pc, query, context, relevanceCheck, relevance, queryType,
                   content, response, calls, raised, returned>>
    /\ UNCHANGED <<hung, req, fetch, messages, inputValue, isLoading>>

\* the rest of handleSubmit, run when fetchAIResponse has settled
Continue(i, message) ==
    /\ messages' = Append(messages, message)
    /\ isLoading' = FALSE
    /\ fetch' = "none"
    /\ req' = [req EXCEPT ![i] = NoRequest]
    /\ res' = [res EXCEPT ![i] = NoReply]
    /\ UNCHANGED <<pc, query, context, relevanceCheck, relevance, queryType,
                   content, response, calls, raised, returned>>
    /\ UNCHANGED <<hung, inputValue>>

\* the reply of the server reaches the page: fetch resolves
FetchResolve(i) ==
    /\ fetch = "pending"
    /\ pc[i] = "idle"
    /\ res[i] # NoReply
    /\ Continue(i, settled(res[i]))

\* fetch rejects: the request does not reach the server, or its reply does
\* not reach the page
FetchFail(i) ==
    /\ fetch = "pending"
    /\ pc[i] = "idle"
    /\ \/ req[i] = NoRequest /\ res[i] = NoReply
       \/ res[i] # NoReply
    /\ Continue(i, errorMessage)

\* a step of the server or of the network for the request in flight
ChatProgress(i) ==
    \/ Arrive(i)
    \/ ParserError(i)
    \/ FetchFail(i)
    \/ FetchResolve(i)
    \/ Accept(i)
    \/ Respond(i)
    \/ Ended(i)
    \/ Pipeline(i)

ChatNext ==
    \/ \E typed \in TypedInputs : Type(typed)
    \/ Submit
    \/ \E i \in Sequential : ChatProgress(i)
    \/ \E i \in Sequential : Hang(i)

\* the network and the server take the steps they can take; a remote call
\* of the pipeline may never resolve
Chat ==
    Init /\ [][ChatNext]_vars /\ \A i \in Sequential : WF_vars(ChatProgress(i))

\* one step of invocation i while the other invocation is in flight: the
\* event loop resumes whichever invocation's awaited call has resolved
ConcurrentStep(i) ==
    \/ \E q \in Queries : Call(i, q)
    \/ ConnectOk(i)
    \/ \E msg \in StoreErrors : ConnectFail(i, msg)
    \/ \E docs \in SearchResults : SearchOk(i, docs)
    \/ \E msg \in StoreErrors : SearchFail(i, msg)
    \/ \E reply \in FewRelevanceReplies : RelevanceYes(i, reply)
    \/ \E reply \in FewRelevanceReplies : RelevanceNo(i, reply)
    \/ \E msg \in ModelErrors : RelevanceFail(i, msg)
    \/ \E reply \in FewIntentReplies : IntentOk(i, reply)
    \/ \E msg \in ModelErrors : IntentFail(i, msg)
    \/ \E reply \in FewSynthesisReplies : SynthesisResolve(i, Reply(reply))
    \/ \E msg \in ModelErrors : SynthesisResolve(i, Failure(msg))
    \/ Return(i)

\* requests served as they arrive, their awaits interleaved
ConcurrentNext == \E i \in Invocations : ConcurrentStep(i)

Concurrent == Init /\ [][ConcurrentNext]_vars

(***************************************************************************)
(* Properties                                                              *)
(***************************************************************************)
ResponseTypes ==
    {"TECHNICAL_WITH_DOCS", "TECHNICAL_NO_DOCS", "BILLING", "IRRELEVANT", "ERROR"}

\* askQuestion has returned a record to its caller
Finished(i) == pc[i] \in {"done", "failed"}

\* C1: askQuestion never ends by throwing, and the record it returns has a
\* type that is one of the five tags, whatever the vector store and the
\* model reply or raise.
C1_AlwaysTypedRecord ==
    \A i \in Invocations :
        /\ pc[i] # "threw"
        /\ Finished(i) => response[i].type \in ResponseTypes

\* an unrecognised classification token has been dispatched and answered
C1_Witness ==
    \E i \in Invocations :
        /\ pc[i] = "done"
        /\ queryType[i] \notin { <<"TECHNICAL_WITH_DOCS">>, <<"TECHNICAL_NO_DOCS">>,
                                 <<"BILLING">>, <<"IRRELEVANT">> }
        /\ response[i].type = "IRRELEVANT"

\* C2: when the relevance classifier returned true, the response is of type
\* TECHNICAL_WITH_DOCS or TECHNICAL_NO_DOCS, never BILLING or IRRELEVANT.
C2_RelevantIsTechnical ==
    \A i \in Invocations :
        (relevance[i] = "true" /\ pc[i] \in {"done", "failed", "threw"}) =>
            /\ Finished(i)
            /\ response[i].type \in {"TECHNICAL_WITH_DOCS", "TECHNICAL_NO_DOCS"}

\* a relevant query whose synthesis fell back
C2_Witness ==
    \E i \in Invocations :
        /\ relevance[i] = "true"
        /\ Finished(i)
        /\ response[i].type = "TECHNICAL_NO_DOCS"

\* C3 as claimed: a model call that raises, in any of the three stages, ends
\* the invocation with the ERROR record.
C3_Original ==
    \A i \in Invocations :
        (Finished(i) /\ raised[i] \in {"relevance", "intent", "synthesis"}) =>
            response[i].type = "ERROR"

\* C3 as amended: a model call that raises in the relevance or the intent
\* classifier ends the invocation with the ERROR record carrying the error's
\* message; a synthesizer model call that raises is caught inside
\* handleTechnicalWithDocs and answered by the static TECHNICAL_NO_DOCS
\* record, like malformed output.
C3_ModelFailure ==
    \A i \in Invocations :
        /\ raised[i] \in {"relevance", "intent"} =>
              /\ pc[i] = "failed"
              /\ response[i].type = "ERROR"
              /\ response[i].error \in ModelErrors
        /\ raised[i] = "synthesis" =>
              /\ pc[i] = "done"
              /\ response[i] = handleTechnicalNoDocs

\* the synthesizer's model call raised and the invocation has returned
C3_Witness ==
    \E i \in Invocations : raised[i] = "synthesis" /\ Finished(i)

\* C4: when the connection to the vector store or the similarity search
\* raises, askQuestion returns the ERROR record {type, message, error}; no
\* store call is repeated and no model call is issued.
C4_RetrievalFailure ==
    \A i \in Invocations :
        raised[i] \in {"connect", "search"} =>
            /\ pc[i] = "failed"
            /\ DOMAIN response[i] = {"type", "message", "error"}
            /\ response[i].type = "ERROR"
            /\ response[i].message = "An error occurred while processing your query."
            /\ response[i].error \in StoreErrors
            /\ calls[i].connect = 1
            /\ calls[i].search = (IF raised[i] = "search" THEN 1 ELSE 0)
            /\ calls[i].relevance = 0
            /\ calls[i].intent = 0
            /\ calls[i].synthesis = 0

\* the similarity search raised
C4_Witness ==
    \E i \in Invocations : raised[i] = "search" /\ pc[i] = "failed"

\* the synthesizer's model call of invocation i resolved with the reply
\* content[i], and askQuestion has returned
Synthesized(i) ==
    Finished(i) /\ calls[i].synthesis = 1 /\ raised[i] = "none"

HasField(val, key) == val.t = "object" /\ key \in DOMAIN val.v

\* C5: when the reply fails the direct parse and the parse of the cleaned
\* text, askQuestion returns exactly the record of handleTechnicalNoDocs,
\* not the ERROR record.
C5_UnparseableFallsBack ==
    \A i \in Invocations :
        ( /\ Synthesized(i)
          /\ ~JSONParse(content[i]).ok
          /\ ~JSONParse(CleanReply(content[i])).ok ) =>
            /\ pc[i] = "done"
            /\ response[i] = handleTechnicalNoDocs

\* a reply that is not JSON before or after the cleanup has been answered
C5_Witness ==
    \E i \in Invocations :
        /\ Synthesized(i)
        /\ content[i] \in {ReplyProse, ReplyPreamble}
        /\ ~JSONParse(CleanReply(content[i])).ok

\* C6: when the reply parses but the parsed value has no answer field, the
\* synthesizer returns the record of handleTechnicalNoDocs and nothing is
\* raised to the caller.
C6_MissingAnswerFallsBack ==
    \A i \in Invocations :
        ( /\ Synthesized(i)
          /\ parseReply(content[i]).ok
          /\ ~HasField(parseReply(content[i]).val, <<"answer">>) ) =>
            /\ pc[i] = "done"
            /\ response[i] = handleTechnicalNoDocs

\* the reply {"confidence":0.8} has been answered
C6_Witness ==
    \E i \in Invocations :
        /\ Synthesized(i)
        /\ content[i] = ReplyNoAnswer
        /\ parseReply(content[i]).val = Obj(<<"confidence">> :> Num(80))

\* the fields a parsed reply with an answer must give, for C7
C7_Expected(i, parsed) ==
    /\ pc[i] = "done"
    /\ response[i].type = "TECHNICAL_WITH_DOCS"
    /\ response[i].confidence =
          IF Get(parsed, <<"confidence">>).t = "number"
          THEN Get(parsed, <<"confidence">>) ELSE Num(95)
    /\ response[i].sourcesUsed =
          IF Get(parsed, <<"sourcesUsed">>).t = "number"
          THEN Get(parsed, <<"sourcesUsed">>) ELSE Num(100)
    /\ response[i].relevantDocs =
          IF Get(parsed, <<"relevantDocs">>).t = "array"
          THEN Get(parsed, <<"relevantDocs">>) ELSE Arr(<<>>)

\* C7: for a parsed reply that has an answer, confidence is the parsed value
\* if it is a number and 0.95 otherwise, sourcesUsed the parsed value if it
\* is a number and 1 otherwise, relevantDocs the parsed value if it is an
\* array and [] otherwise; {"answer":"x"} gives 0.95, 1, [] and type
\* TECHNICAL_WITH_DOCS.
C7_DefaultFilling ==
    \A i \in Invocations :
        /\ ( /\ Synthesized(i)
             /\ parseReply(content[i]).ok
             /\ Truthy(Get(parseReply(content[i]).val, <<"answer">>)) ) =>
               C7_Expected(i, parseReply(content[i]).val)
        /\ (Synthesized(i) /\ content[i] = ReplyMinimal) =>
               /\ response[i].type = "TECHNICAL_WITH_DOCS"
               /\ response[i].confidence = Num(95)
               /\ response[i].sourcesUsed = Num(100)
               /\ response[i].relevantDocs = Arr(<<>>)

\* a reply whose confidence, sourcesUsed and relevantDocs have the wrong
\* types has been answered with the defaults
C7_Witness ==
    \E i \in Invocations :
        /\ Synthesized(i)
        /\ content[i] = ReplyWrongTypes
        /\ response[i].confidence = Num(95)

\* C8: in every response of type TECHNICAL_WITH_DOCS, confidence is a
\* number in [0, 1].
C8_ConfidenceInRange ==
    \A i \in Invocations :
        (Finished(i) /\ response[i].type = "TECHNICAL_WITH_DOCS") =>
            confidenceSchema(response[i].confidence)

\* the fields of the response envelope
Envelope == { <<"type">>, <<"priority">>, <<"responseTime">> }

\* the parsed reply without the envelope fields
Payload(val) == [k \in (DOMAIN val.v) \ Envelope |-> val.v[k]]

\* two replies that parse to objects differing at most in the envelope
SameButEnvelope(r1, r2) ==
    /\ parseReply(r1).ok /\ parseReply(r1).val.t = "object"
    /\ parseReply(r2).ok /\ parseReply(r2).val.t = "object"
    /\ Payload(parseReply(r1).val) = Payload(parseReply(r2).val)

\* C9: on the synthesizer's success path type, priority and responseTime are
\* the fixed literals, and any reply that differs from the one received only
\* in these fields gives the identical response.
C9_EnvelopeFixed ==
    \A i \in Invocations :
        (Synthesized(i) /\ ~tryTechnicalWithDocs(Reply(content[i])).threw) =>
            /\ response[i].type = "TECHNICAL_WITH_DOCS"
            /\ response[i].priority = "HIGH - Documentation Available"
            /\ response[i].responseTime = "Immediate - Using Available Documentation"
            /\ \A r \in SynthesisReplies :
                  SameButEnvelope(content[i], r) =>
                      handleTechnicalWithDocs(Reply(r)) = Returned(response[i])

\* a reply that set its own type, priority and responseTime has been
\* answered, and another reply differs from it only in these fields
C9_Witness ==
    \E i \in Invocations :
        /\ Synthesized(i)
        /\ content[i] = ReplyEnvelope
        /\ Get(parseReply(content[i]).val, <<"type">>) = Str(<<"BILLING">>)
        /\ SameButEnvelope(ReplyEnvelope, ReplyMinimal)

\* C10 as claimed: the type of every response other than ERROR equals the
\* category classifyQuery returned.
C10_Original ==
    \A i \in Invocations :
        pc[i] = "done" => <<response[i].type>> = queryType[i]

\* C10 as amended: the type equals the category classifyQuery returned,
\* except that a TECHNICAL_WITH_DOCS query whose synthesis fails is answered
\* with type TECHNICAL_NO_DOCS, and a value of classifyQuery outside the
\* four categories is answered with type IRRELEVANT.
C10_TypeFollowsCategory ==
    \A i \in Invocations :
        pc[i] = "done" =>
            IF queryType[i] = <<"TECHNICAL_WITH_DOCS">>
            THEN response[i].type =
                    IF tryTechnicalWithDocs(
                          IF raised[i] = "synthesis" THEN Failure("") ELSE Reply(content[i])).threw
                    THEN "TECHNICAL_NO_DOCS" ELSE "TECHNICAL_WITH_DOCS"
            ELSE IF queryType[i] \in { <<"TECHNICAL_NO_DOCS">>, <<"BILLING">>, <<"IRRELEVANT">> }
            THEN <<response[i].type>> = queryType[i]
            ELSE response[i].type = "IRRELEVANT"

\* a query classified BILLING has been answered
C10_Witness ==
    \E i \in Invocations :
        /\ pc[i] = "done"
        /\ relevance[i] = "false"
        /\ queryType[i] = <<"BILLING">>
        /\ response[i].type = "BILLING"

\* the intent classifier of invocation i has replied: queryType[i] is its
\* trimmed, upper-cased reply
Classified(i) ==
    /\ relevance[i] = "false"
    /\ calls[i].intent = 1
    /\ pc[i] \in {"synthesizing", "done", "failed"}
    /\ raised[i] # "intent"

\* C11: when the relevance classifier returned false, the response is the
\* fixed record of the static responder named by the intent reply, and the
\* IRRELEVANT record for every other reply; no error is returned.
C11_IntentDecidesResponse ==
    \A i \in Invocations :
        (Classified(i) /\ pc[i] # "synthesizing") =>
            /\ pc[i] = "done"
            /\ response[i] =
                  CASE queryType[i] = <<"TECHNICAL_NO_DOCS">> -> handleTechnicalNoDocs
                    [] queryType[i] = <<"BILLING">> -> handleBilling
                    [] OTHER -> handleIrrelevant

\* C12: classifyQuery returns one of the four categories, and one of
\* TECHNICAL_NO_DOCS, BILLING, IRRELEVANT when the relevance check is false.
C12_ClosedEnumeration ==
    \A i \in Invocations :
        /\ (relevance[i] = "true" /\ pc[i] \in {"synthesizing", "done", "failed"}) =>
              queryType[i] = <<"TECHNICAL_WITH_DOCS">>
        /\ Classified(i) =>
              queryType[i] \in { <<"TECHNICAL_NO_DOCS">>, <<"BILLING">>, <<"IRRELEVANT">> }

\* C13: the synthesizer's model call is issued only after a true relevance
\* check and the intent classifier's only after a false one, so that no
\* invocation issues both.
C13_SynthesisOnlyWhenRelevant ==
    \A i \in Invocations :
        /\ calls[i].synthesis > 0 => relevance[i] = "true"
        /\ calls[i].intent > 0 => relevance[i] = "false"
        /\ calls[i].intent + calls[i].synthesis <= 1

\* the reply is the word yes in any letter case, with nothing but white
\* space before and after it
IsYes(reply) ==
    \E k \in 1..Len(reply) :
        /\ reply[k] \in {"YES", "Yes", "yes"}
        /\ \A j \in 1..Len(reply) : j # k => reply[j] \in WhiteSpace

\* C14: the relevance classifier returns true exactly for a reply that is
\* YES once trimmed and upper-cased; YES followed by a full stop, Y, NO, the
\* empty reply and a sentence containing yes all count as not relevant.
C14_RelevantIffYes ==
    \A i \in Invocations :
        /\ relevance[i] = "true" => IsYes(relevanceCheck[i])
        /\ relevance[i] = "false" => ~IsYes(relevanceCheck[i])
        /\ relevanceCheck[i] \in { <<"YES", ".">>, <<"Y">>, <<"NO">>,
                                   <<"Yes", SP, "it", SP, "is">> }
              => relevance[i] = "false"
        /\ pc[i] \in {"classifying", "synthesizing", "done"} =>
              relevance[i] \in {"true", "false"}

\* a reply with surrounding white space and lower-case letters was taken as
\* relevant, and the synthesizer was called
C14_Witness ==
    \E i \in Invocations :
        /\ relevanceCheck[i] = <<SP, "yes", NL>>
        /\ relevance[i] = "true"
        /\ pc[i] = "synthesizing"

\* the value the first successful parse attempt gives for the reply
Parsed(text) ==
    IF JSONParse(text).ok THEN JSONParse(text).val
    ELSE JSONParse(CleanReply(text)).val

FixedRecord(type) ==
    CASE type = "TECHNICAL_NO_DOCS" -> handleTechnicalNoDocs
      [] type = "BILLING" -> handleBilling
      [] type = "IRRELEVANT" -> handleIrrelevant

\* C16: however often and in whatever order the static responders are
\* called, each returns one and the same record, and a response produced by
\* a static responder alone has cost no model or vector-store call beyond
\* those of retrieval, the relevance check and the intent classification.
C16_StaticRespondersPure ==
    /\ \A t \in StaticTypes : returned[t].values \subseteq {FixedRecord(t)}
    /\ \A i \in Invocations :
          (pc[i] = "done" /\ queryType[i] # <<"TECHNICAL_WITH_DOCS">>) =>
              /\ response[i] \in {FixedRecord(t) : t \in StaticTypes}
              /\ calls[i] = [connect |-> 1, search |-> 1, relevance |-> 1,
                             intent |-> 1, synthesis |-> 0]

\* the BILLING responder has returned a second time, after the other two
\* responders have returned as well
C16_Witness ==
    /\ returned["BILLING"].times = 2
    /\ returned["TECHNICAL_NO_DOCS"].times >= 1
    /\ returned["IRRELEVANT"].times >= 1
    /\ \E i \in Invocations :
          pc[i] = "done" /\ response[i] = handleBilling /\ calls[i].synthesis = 0

\* C17: the fenced reply (a fence line with json, the line {"answer":"x"},
\* a closing fence line) is repaired to the record {answer:"x"} and answered
\* with it, and a reply whose keys stand in curly quotes, which fails the
\* direct parse, is parsed after the repair instead of falling back.
C17_RepairRecovers ==
    \A i \in Invocations :
        /\ (Synthesized(i) /\ content[i] = ReplyFenced) =>
              /\ ~JSONParse(content[i]).ok
              /\ CleanReply(content[i]) = ReplyMinimal
              /\ JSONParse(CleanReply(content[i])).ok
              /\ JSONParse(CleanReply(content[i])).val =
                    Obj(<<"answer">> :> Str(<<"x">>))
              /\ response[i].type = "TECHNICAL_WITH_DOCS"
              /\ response[i].answer = Str(<<"x">>)
        /\ (Synthesized(i) /\ content[i] \in {ReplyCurlyKeys, ReplyCurlyQuotes}) =>
              /\ ~JSONParse(content[i]).ok
              /\ JSONParse(CleanReply(content[i])).ok
              /\ response[i].type = "TECHNICAL_WITH_DOCS"
              /\ response[i].answer = Str(<<"x">>)

\* a reply with curly quotes around its key has been answered from the
\* repaired text
C17_Witness ==
    \E i \in Invocations :
        /\ Synthesized(i)
        /\ content[i] = ReplyCurlyKeys
        /\ response[i].type = "TECHNICAL_WITH_DOCS"

\* the stage of the pipeline an invocation is in
Stage(at) ==
    CASE at = "idle" -> "NONE"
      [] at \in {"connecting", "searching"} -> "RETRIEVING"
      [] at = "gating" -> "GATING"
      [] at = "classifying" -> "CLASSIFYING"
      [] at = "synthesizing" -> "SYNTHESIZING"
      [] at = "done" -> "DONE"
      [] OTHER -> "FAILED"

\* the transitions between stages; responding takes no step of its own, it
\* is the end of the step that leaves SYNTHESIZING or CLASSIFYING
StageTransitions ==
    { <<"NONE", "RETRIEVING">>, <<"RETRIEVING", "GATING">>,
      <<"GATING", "SYNTHESIZING">>, <<"GATING", "CLASSIFYING">>,
      <<"SYNTHESIZING", "DONE">>, <<"CLASSIFYING", "DONE">>,
      <<"DONE", "NONE">>, <<"FAILED", "NONE">> }
      \cup { <<from, "FAILED">> :
                from \in {"RETRIEVING", "GATING", "SYNTHESIZING", "CLASSIFYING"} }

\* the remote calls of invocation i that have been issued and not resolved
Outstanding(i) ==
    IF pc[i] \in {"connecting", "searching", "gating", "classifying", "synthesizing"}
    THEN 1 ELSE 0

\* C18: an invocation moves only along RETRIEVING -> GATING ->
\* (SYNTHESIZING | CLASSIFYING) -> RESPONDING -> DONE or to FAILED; the
\* relevance call is issued when retrieval resolves, with an empty context
\* too, the intent or synthesis call when the relevance call resolves, and
\* never while another call is outstanding.
C18_StageOrder ==
    [][ \A i \in Invocations :
          /\ Stage(pc[i]) # Stage(pc'[i]) =>
                <<Stage(pc[i]), Stage(pc'[i])>> \in StageTransitions
          /\ calls'[i].relevance > calls[i].relevance =>
                pc[i] = "searching" /\ pc'[i] = "gating"
          /\ (pc[i] = "searching" /\ pc'[i] = "gating") =>
                calls'[i].relevance = calls[i].relevance + 1
          /\ (calls'[i].intent > calls[i].intent
                \/ calls'[i].synthesis > calls[i].synthesis) => pc[i] = "gating"
          /\ calls'[i] # calls[i] /\ pc'[i] # "idle" =>
                Outstanding(i)' = 1 ]_vars

\* getRelevantDocuments of invocation i has returned a context
RetrievalSucceeded(i) ==
    \/ pc[i] \in {"gating", "classifying", "synthesizing", "done"}
    \/ pc[i] \in {"failed", "threw"} /\ raised[i] \in {"relevance", "intent", "synthesis"}

\* C19: in one invocation there is at most one vector-store search, exactly
\* one relevance call once retrieval has succeeded (none before), at most
\* one intent call and at most one synthesis call, whichever calls fail or
\* reply with malformed text.
C19_NoRetry ==
    \A i \in Invocations :
        /\ calls[i].connect <= 1
        /\ calls[i].search <= 1
        /\ calls[i].intent <= 1
        /\ calls[i].synthesis <= 1
        /\ calls[i].relevance = IF RetrievalSucceeded(i) THEN 1 ELSE 0

\* the synthesis call has failed after one attempt and the invocation has
\* answered with the fallback
C19_Witness ==
    \E i \in Invocations :
        /\ pc[i] = "done"
        /\ raised[i] = "synthesis"
        /\ calls[i].synthesis = 1
        /\ calls[i].relevance = 1
        /\ response[i] = handleTechnicalNoDocs

\* C20: a reply that parses directly is used as parsed, its text never
\* cleaned (white space and curly quotes inside its answer stay, and a
\* reply the cleanup would break is still answered); the cleaned text is
\* parsed only when the direct parse failed, and a reply is given the
\* TECHNICAL_NO_DOCS fallback as unparseable only if both parses failed.
C20_DirectParseFirst ==
    \A i \in Invocations :
        Synthesized(i) =>
            /\ ( /\ JSONParse(content[i]).ok
                 /\ Truthy(Get(JSONParse(content[i]).val, <<"answer">>)) ) =>
                   /\ response[i].type = "TECHNICAL_WITH_DOCS"
                   /\ response[i].answer = Get(JSONParse(content[i]).val, <<"answer">>)
            /\ ( /\ JSONParse(content[i]).ok
                 /\ ~Truthy(Get(JSONParse(content[i]).val, <<"answer">>)) ) =>
                   response[i] = handleTechnicalNoDocs
            /\ ( /\ ~JSONParse(content[i]).ok
                 /\ JSONParse(CleanReply(content[i])).ok
                 /\ Truthy(Get(JSONParse(CleanReply(content[i])).val, <<"answer">>)) ) =>
                   /\ response[i].type = "TECHNICAL_WITH_DOCS"
                   /\ response[i].answer =
                         Get(JSONParse(CleanReply(content[i])).val, <<"answer">>)
            /\ content[i] = ReplyWideAnswer =>
                   response[i].answer = Str(<<"a", SP, SP, "b">>)
            /\ content[i] = ReplyQuotedAnswer =>
                   response[i].answer = Str(<<"say", SP, LDQUO, "hi", RDQUO>>)

\* a reply that parses directly and would not parse once cleaned has been
\* answered with its own answer
C20_Witness ==
    \E i \in Invocations :
        /\ Synthesized(i)
        /\ content[i] = ReplyQuotedAnswer
        /\ JSONParse(content[i]).ok
        /\ ~JSONParse(CleanReply(content[i])).ok
        /\ response[i].type = "TECHNICAL_WITH_DOCS"

\* the locals of invocation i
Locals(i) ==
    <<pc[i], query[i], context[i], relevanceCheck[i], relevance[i],
      queryType[i], content[i], response[i], calls[i], raised[i]>>

\* what invocation i was called with and what its own remote calls gave
OwnInputs(i) ==
    <<query[i], context[i], relevanceCheck[i], queryType[i], content[i],
      raised[i]>>

\* C21: under every interleaving a step of one invocation leaves the
\* locals of the other untouched (its query, its context, its category, the
\* reply it parsed), and two invocations called with the same query whose
\* remote calls gave the same results return the same response.
C21_Independent ==
    /\ [](\A i, j \in Invocations :
            (Finished(i) /\ Finished(j) /\ OwnInputs(i) = OwnInputs(j)) =>
                response[i] = response[j])
    /\ [][ \A i, j \in Invocations :
              (i # j /\ Locals(i)' # Locals(i)) => Locals(j)' = Locals(j) ]_vars

\* two invocations are in flight at once, past retrieval, with different
\* queries and different contexts
C21_Witness ==
    /\ pc["i1"] = "synthesizing"
    /\ pc["i2"] = "classifying"
    /\ query["i1"] # query["i2"]
    /\ context["i1"] # context["i2"]

\* C22: an invocation whose calls all resolve reaches DONE or FAILED, that
\* is, returns a response; an invocation whose awaited call never resolves
\* stays in the stage of that call for ever, with no response, for there is
\* no timeout.
C22_TerminatesUnlessHung ==
    /\ \A i \in Invocations : (pc[i] \in Waiting) ~> (Finished(i) \/ hung[i])
    /\ [](\A i \in Invocations :
            hung[i] => pc[i] \in Waiting /\ response[i] = NoResponse)
    /\ [][ \A i \in Invocations :
              hung[i] => hung'[i] /\ Locals(i)' = Locals(i) ]_vars

\* the synthesis call of an invocation hangs
C22_Witness ==
    \E i \in Invocations : hung[i] /\ pc[i] = "synthesizing"

\* C23: the handler calls askQuestion only for a query that is a non-empty
\* string, with that string; a request whose query is missing, empty or not
\* a string is answered 400 with {error, message} and causes no retrieval
\* and no model call; every other request is answered 200.
C23_InvalidRequestRejected ==
    \A i \in Invocations :
        /\ (pc[i] # "idle" \/ calls[i] # NoCalls) =>
              /\ req[i].t = "string"
              /\ req[i].v # <<>>
              /\ query[i] = req[i].v
        /\ (req[i].t # "string" \/ req[i] = Str(<<>>)) =>
              /\ pc[i] = "idle"
              /\ calls[i] = NoCalls
              /\ res[i] \in {NoReply, badRequest}
        /\ res[i].status = 400 =>
              /\ req[i].t # "string" \/ req[i] = Str(<<>>)
              /\ DOMAIN res[i].body = {"error", "message"}
        /\ res[i].status \in {0, 200, 400}

\* a request whose query is the empty string has been answered 400
C23_Witness ==
    \E i \in Invocations :
        /\ req[i] = Str(<<>>)
        /\ res[i] = badRequest
        /\ calls[i] = NoCalls

\* the message last appended to the list
Newest(list) == list[Len(list)]

\* user messages and AI messages take turns, a user message first
Alternating ==
    \A k \in 1..Len(messages) :
        messages[k].sender = IF k % 2 = 1 THEN "user" ELSE "ai"

\* a request is on its way or at the server
InFlight(i) == req[i] # NoRequest \/ res[i] # NoReply \/ pc[i] # "idle"

\* what every step of the chat keeps of C24: messages are appended one at a
\* time; a blank submit changes nothing; an accepted submit appends the
\* typed text as a user message and starts loading; nothing is appended
\* while loading but the one AI message that ends the loading
OneReplyPerSubmit ==
    /\ [](/\ Alternating
          /\ isLoading <=> Len(messages) % 2 = 1
          /\ isLoading <=> fetch = "pending"
          /\ ~isLoading => \A i \in Invocations : ~InFlight(i))
    /\ [][ /\ messages' # messages =>
                \E m \in {Newest(messages')} : messages' = Append(messages, m)
           /\ (~isLoading /\ Trim(inputValue) = <<>>) =>
                /\ messages' = messages
                /\ ~isLoading'
                /\ fetch' = fetch
                /\ req' = req
           /\ (~isLoading /\ messages' # messages) =>
                /\ Trim(inputValue) # <<>>
                /\ messages' = Append(messages, userMessage(inputValue))
                /\ isLoading'
           /\ (isLoading /\ isLoading') => messages' = messages
           /\ (isLoading /\ ~isLoading') =>
                /\ Len(messages') = Len(messages) + 1
                /\ \/ Newest(messages') = errorMessage
                   \/ \E i \in Sequential :
                         /\ ok(res[i].status)
                         /\ Newest(messages') = aiMessage(formatResponse(res[i].body))
                /\ \A i \in Sequential :
                      (res[i] # NoReply /\ ~ok(res[i].status)) =>
                          Newest(messages') = errorMessage
         ]_vars

NoAnswerTypes == {"TECHNICAL_NO_DOCS", "BILLING", "IRRELEVANT", "ERROR"}

\* C25: a response of type TECHNICAL_NO_DOCS, BILLING, IRRELEVANT or ERROR
\* has no answer and is delivered with status 200; the AI message made of it
\* has the text 'No answer provided', does not show the message of the
\* response and is not marked as an error.
C25_NoAnswerProvided ==
    /\ [](\A i \in Sequential :
            (res[i] # NoReply /\ "type" \in DOMAIN res[i].body) =>
                /\ res[i].status = 200
                /\ "answer" \notin DOMAIN res[i].body <=>
                       res[i].body.type \in NoAnswerTypes)
    /\ [][ \A i \in Sequential :
             ( /\ isLoading /\ ~isLoading'
               /\ res[i].status = 200
               /\ "answer" \notin DOMAIN res[i].body
               /\ Newest(messages') # errorMessage ) =>
                 /\ Newest(messages').text = Str(<<"No answer provided">>)
                 /\ Newest(messages').text # Str(<<res[i].body.message>>)
                 /\ "isError" \notin DOMAIN Newest(messages')
                 /\ DOMAIN Newest(messages') = {"text", "sender", "metadata"}
                 /\ Newest(messages').metadata.type = res[i].body.type
                 /\ Newest(messages').metadata.type # res[i].body.message
                 /\ Newest(messages').metadata.priority = Undefined
                 /\ Newest(messages').metadata.confidence = Undefined
                 /\ Newest(messages').metadata.sourcesUsed = Undefined
         ]_vars
    /\ [](\A k \in 1..Len(messages) :
            ("metadata" \in DOMAIN messages[k]
               /\ messages[k].metadata.type \in NoAnswerTypes) =>
                /\ messages[k].text = Str(<<"No answer provided">>)
                /\ "isError" \notin DOMAIN messages[k])

\* the chat shows 'No answer provided' for an ERROR response and for a
\* BILLING response
C25_Witness ==
    /\ Len(messages) = 4
    /\ messages[2] = aiMessage(formatResponse(errorResponse("model request failed")))
    /\ messages[2].text = Str(<<"No answer provided">>)
    /\ messages[4] = aiMessage(formatResponse(handleBilling))

=============================================================================
